---- MODULE Spec2Model ----
(***************************************************************************)
(* The download/transcode pipeline of songflong2/runner.py: a             *)
(* DownloadQueue owning one queue.Queue and `count` VideoWorker threads,   *)
(* a submitting thread calling load_links and close, and the workers'      *)
(* get / download / transcribe / task_done loop.                           *)
(***************************************************************************)
EXTENDS Integers, Sequences, FiniteSets, TLC

\* ---------------------------------------------------------------- bounds
MaxWorkers == 2   \* largest `count` given to DownloadQueue(count)
MaxJobs    == 3   \* most jobs put over a whole run

\* DownloadQueue.__init__'s default for count.
DefaultCount == 2

\* The (title, link) pairs of the candidate songs, and the shared arguments.
Songs  == << <<"SongA", "linkA">>, <<"SongB", "linkB">> >>
Videos == { "seed.mp4" }
Dirs   == { "temp" }

VARIABLES
    count,        \* DownloadQueue.count: workers spawned at construction
    queue,        \* Queue's pending items, head first
    unfinished,   \* Queue.unfinished_tasks
    wpc,          \* each worker's position in VideoWorker.run
    wjob,         \* the tuple a worker got (NoJob outside an iteration)
    waudio,       \* audio_file local of the iteration (NoAudio if unset)
    wexc,         \* the exception in flight in the worker (NoExc if none)
    mainpc,       \* the submitting thread: "idle", "load_links", "close"
    links,        \* what is left of the list load_links iterates over
    video_file,   \* load_links' video_file argument
    download_dir, \* load_links' download_dir argument
    lastClose,    \* puts and task_dones counted when close last returned
    putLog,       \* every tuple put, in order
    getLog,       \* every get: [worker, job], in order
    doneLog,      \* every task_done: [worker, id, result], in order
    uuids,        \* uuid4 values generated so far
    targets,      \* every transcode invocation, in order: its job, audio
                  \* and output path, how the ffmpeg process ended, and what
                  \* subprocess_call and ffmpeg_merge_video_audio ended with
    files         \* output files present in the download directories

vars == << count, queue, unfinished, wpc, wjob, waudio, wexc, mainpc, links,
           video_file, download_dir, lastClose, putLog, getLog, doneLog, uuids,
           targets, files >>

qvars    == << queue, unfinished >>
wvars    == << wpc, wjob, waudio, wexc >>
mainvars == << mainpc, links, video_file, download_dir >>
fsvars   == << uuids, targets, files >>

Workers == 1 .. count

NoJob   == [id |-> 0]
NoAudio == << >>
NoExc   == "none"
NoClose == [puts |-> -1, dones |-> -1]

\* What the external ffmpeg process may end with: its return code and the
\* text on its stderr. The n-th process of a run ends with 0 or with one
\* failure code, taken in turn from an error status and a signal's code.
FailureCodes == << 1, -9 >>
ReturnCodes(n) == { 0, FailureCodes[(n % Len(FailureCodes)) + 1] }
StderrTexts == { "Invalid data found when processing input" }

\* The lists a caller passes to load_links: the next k candidates, taken in
\* turn from Songs after the `done` already submitted (two neighbours name
\* different songs; a third submits the first song a second time).
LinkLists(done, n) ==
    { [i \in 1 .. k |-> Songs[((done + i - 1) % Len(Songs)) + 1]] : k \in 0 .. n }

\* --------------------------------------------------------- queue.Queue
\* A put at the head of the pending items (a deque's appendleft).
QueuePutFront(q, item) == << item >> \o q

\* Queue.put on an unbounded queue: append at the tail, count the task.
QueuePut(q, item) == Append(q, item)

\* A LifoQueue's get: the most recently put item is removed and returned.
LifoQueueGet(q) == [item |-> q[Len(q)], rest |-> SubSeq(q, 1, Len(q) - 1)]

\* A get that reads the head without removing it.
PeekQueueGet(q) == [item |-> Head(q), rest |-> q]

\* Queue.get on a non-empty queue: the head is removed and returned.
QueueGet(q) == [item |-> Head(q), rest |-> Tail(q)]

\* ------------------------------------------------------------ helpers
\* A tuple built in the order of load_links' parameters, (title, link,
\* video_file, download_dir), which run() still unpacks as (video_file,
\* title, link, download_dir).
MakeJobMisordered(n, pair, vf, dd) ==
    [ id |-> n, video_file |-> pair[1], title |-> pair[2], link |-> vf,
      download_dir |-> dd ]

\* The tuple load_links builds for one (title, link) pair; id is the
\* identity of the tuple object (the ordinal of its put).
MakeJob(n, pair, vf, dd) ==
    [ id |-> n, video_file |-> vf, title |-> pair[1], link |-> pair[2],
      download_dir |-> dd ]

\* download_audio_stream's returned path for a link in a directory.
AudioPath(link, dd) == << dd, "audio", link >>

\* An output named after the seed video instead of a fresh uuid.
OutputPathByVideo(vf, af, dd, u) == << dd, "output", vf >>

\* uuid.uuid4(), idealised as a source of fresh values: the value after n
\* earlier ones is none of them (a chance collision of two random 122-bit
\* values is outside the model).
Uuid4(n) == n + 1

\* The output path transcribe_video hands to ffmpeg_merge_video_audio.
OutputPath(vf, af, dd, u) == << dd, "output", u >>

\* --------------------------------------------------------- ffmpeg.py
\* What a call ends with: a normal return, or a raised exception.
Returned == [raised |-> FALSE]
Raised(type, text) == [raised |-> TRUE, type |-> type, text |-> text]

\* A subprocess_call that takes only a positive return code for a failure,
\* so a process killed by a signal passes for a success.
subprocess_call_positive_only(cmd, returncode, err) ==
    IF returncode > 0 THEN Raised("IOError", err) ELSE Returned

\* subprocess_call(cmd) for a process ending with `returncode` and `err` on
\* its stderr: `if proc.returncode: raise IOError(err.decode('utf8'))`.
subprocess_call(cmd, returncode, err) ==
    IF returncode # 0 THEN Raised("IOError", err) ELSE Returned

\* The command line ffmpeg_merge_video_audio builds.
ffmpeg_cmd(video, audio, output) ==
    << "ffmpeg", "-y", "-i", audio, "-i", video,
       "-vcodec", "copy", "-acodec", "copy", output >>

\* ffmpeg_merge_video_audio(video, audio, output): builds the command line
\* and calls subprocess_call, whose exception is not caught.
ffmpeg_merge_video_audio(video, audio, output, returncode, err) ==
    subprocess_call(ffmpeg_cmd(video, audio, output), returncode, err)

\* ------------------------------------------------------------- Init
\* DownloadQueue.__init__: an empty Queue and `count` started workers, each
\* about to call queue.get().
Init ==
    /\ count \in (1 .. MaxWorkers) \cup { DefaultCount }
    /\ queue = <<>>
    /\ unfinished = 0
    /\ wpc = [w \in 1 .. count |-> "get"]
    /\ wjob = [w \in 1 .. count |-> NoJob]
    /\ waudio = [w \in 1 .. count |-> NoAudio]
    /\ wexc = [w \in 1 .. count |-> NoExc]
    /\ mainpc = "idle"
    /\ links = <<>>
    /\ video_file = "none"
    /\ download_dir = "none"
    /\ lastClose = NoClose
    /\ putLog = <<>>
    /\ getLog = <<>>
    /\ doneLog = <<>>
    /\ uuids = 0
    /\ targets = <<>>
    /\ files = {}

\* ------------------------------------------------- submitting thread
\* load_links(links, video_file, download_dir) is entered.
LoadLinksCall ==
    /\ mainpc = "idle"
    /\ \E ls \in LinkLists(Len(putLog), MaxJobs - Len(putLog)), vf \in Videos, dd \in Dirs :
          /\ links' = ls
          /\ video_file' = vf
          /\ download_dir' = dd
    /\ mainpc' = "load_links"
    /\ UNCHANGED << count, lastClose, putLog, getLog, doneLog >>
    /\ UNCHANGED << qvars, wvars, fsvars >>

\* One iteration of load_links' loop: queue.put of the next tuple.
LoadLinksPut ==
    /\ mainpc = "load_links"
    /\ links # <<>>
    /\ LET job == MakeJob(Len(putLog) + 1, Head(links), video_file, download_dir)
       IN  /\ queue' = QueuePut(queue, job)
           /\ unfinished' = unfinished + 1
           /\ putLog' = Append(putLog, job)
    /\ links' = Tail(links)
    /\ UNCHANGED << count, lastClose, mainpc, video_file, download_dir, getLog, doneLog >>
    /\ UNCHANGED << wvars, fsvars >>

\* load_links' loop is exhausted and the call returns.
LoadLinksReturn ==
    /\ mainpc = "load_links"
    /\ links = <<>>
    /\ mainpc' = "idle"
    /\ UNCHANGED << count, lastClose, links, video_file, download_dir, putLog, getLog, doneLog >>
    /\ UNCHANGED << qvars, wvars, fsvars >>

\* close() (or __exit__) is entered: it calls queue.join().
CloseCall ==
    /\ mainpc = "idle"
    /\ mainpc' = "close"
    /\ UNCHANGED << count, lastClose, links, video_file, download_dir, putLog, getLog, doneLog >>
    /\ UNCHANGED << qvars, wvars, fsvars >>

\* A close that polls Queue.empty() instead of joining: it returns as soon
\* as nothing is pending, whatever is still being processed.
CloseReturnWhenEmpty ==
    /\ mainpc = "close"
    /\ queue = <<>>
    /\ mainpc' = "idle"
    /\ lastClose' = [puts |-> Len(putLog), dones |-> Len(doneLog)]
    /\ UNCHANGED << count, links, video_file, download_dir, putLog, getLog, doneLog >>
    /\ UNCHANGED << qvars, wvars, fsvars >>

\* A close that joins the worker threads instead of the queue: it returns
\* only when every worker's run() has ended.
CloseReturnWhenWorkersEnd ==
    /\ mainpc = "close"
    /\ \A w \in Workers : wpc[w] = "dead"
    /\ mainpc' = "idle"
    /\ lastClose' = [puts |-> Len(putLog), dones |-> Len(doneLog)]
    /\ UNCHANGED << count, links, video_file, download_dir, putLog, getLog, doneLog >>
    /\ UNCHANGED << qvars, wvars, fsvars >>

\* A close that also shuts the pool down: once the queue is joined it stops
\* every worker thread.
CloseReturnStoppingWorkers ==
    /\ mainpc = "close"
    /\ unfinished = 0
    /\ mainpc' = "idle"
    /\ lastClose' = [puts |-> Len(putLog), dones |-> Len(doneLog)]
    /\ wpc' = [w \in Workers |-> "dead"]
    /\ UNCHANGED << count, links, video_file, download_dir, putLog, getLog, doneLog >>
    /\ UNCHANGED << qvars, wjob, waudio, wexc, fsvars >>

\* queue.join() returns: it waits while unfinished_tasks is non-zero.
CloseReturn ==
    /\ mainpc = "close"
    /\ unfinished = 0
    /\ mainpc' = "idle"
    /\ lastClose' = [puts |-> Len(putLog), dones |-> Len(doneLog)]
    /\ UNCHANGED << count, links, video_file, download_dir, putLog, getLog, doneLog >>
    /\ UNCHANGED << qvars, wvars, fsvars >>

\* ------------------------------------------------------ VideoWorker.run
\* queue.get(): blocks while the queue is empty, then takes the head.
WorkerGet(w) ==
    /\ wpc[w] = "get"
    /\ queue # <<>>
    /\ LET got == QueueGet(queue)
       IN  /\ wjob' = [wjob EXCEPT ![w] = got.item]
           /\ queue' = got.rest
           /\ getLog' = Append(getLog, [worker |-> w, job |-> got.item])
    /\ wpc' = [wpc EXCEPT ![w] = "download"]
    /\ UNCHANGED << count, lastClose, unfinished, waudio, wexc, putLog, doneLog >>
    /\ UNCHANGED << mainvars, fsvars >>

\* A run() whose task_done is the last statement of the try body rather
\* than a finally clause: a raising download ends the thread at once.
WorkerDownloadNoFinally(w) ==
    /\ wpc[w] = "download"
    /\ \E ok \in BOOLEAN :
          IF ok
          THEN /\ waudio' = [waudio EXCEPT ![w] = AudioPath(wjob[w].link, wjob[w].download_dir)]
               /\ wpc' = [wpc EXCEPT ![w] = "transcribe"]
               /\ wexc' = wexc
               /\ wjob' = wjob
          ELSE /\ wexc' = [wexc EXCEPT ![w] = "download"]
               /\ wpc' = [wpc EXCEPT ![w] = "dead"]
               /\ waudio' = waudio
               /\ wjob' = [wjob EXCEPT ![w] = NoJob]
    /\ UNCHANGED << count, lastClose, putLog, getLog, doneLog >>
    /\ UNCHANGED << qvars, mainvars, fsvars >>

\* A run() that swallows the download's exception (except: pass) and goes
\* on to the transcode with no audio file.
WorkerDownloadSwallowing(w) ==
    /\ wpc[w] = "download"
    /\ \E ok \in BOOLEAN :
          IF ok
          THEN waudio' = [waudio EXCEPT ![w] = AudioPath(wjob[w].link, wjob[w].download_dir)]
          ELSE waudio' = waudio
    /\ wpc' = [wpc EXCEPT ![w] = "transcribe"]
    /\ wexc' = wexc
    /\ UNCHANGED << count, lastClose, wjob, putLog, getLog, doneLog >>
    /\ UNCHANGED << qvars, mainvars, fsvars >>

\* download_audio_stream(link, download_dir): returns the audio path, or
\* raises, in which case control goes to the finally clause.
WorkerDownload(w) ==
    /\ wpc[w] = "download"
    /\ \E ok \in BOOLEAN :
          IF ok
          THEN /\ waudio' = [waudio EXCEPT ![w] = AudioPath(wjob[w].link, wjob[w].download_dir)]
               /\ wpc' = [wpc EXCEPT ![w] = "transcribe"]
               /\ wexc' = wexc
          ELSE /\ wexc' = [wexc EXCEPT ![w] = "download"]
               /\ wpc' = [wpc EXCEPT ![w] = "task_done"]
               /\ waudio' = waudio
    /\ UNCHANGED << count, lastClose, wjob, putLog, getLog, doneLog >>
    /\ UNCHANGED << qvars, mainvars, fsvars >>

\* transcribe_video(video_file, audio_file, download_dir): a fresh uuid4
\* names the output; ffmpeg_merge_video_audio runs the ffmpeg process, which
\* writes the output, or raises when the process fails.
WorkerTranscribe(w) ==
    /\ wpc[w] = "transcribe"
    /\ LET u    == Uuid4(uuids)
           path == OutputPath(wjob[w].video_file, waudio[w], wjob[w].download_dir, u)
       IN  /\ uuids' = u
           /\ \E returncode \in ReturnCodes(u), err \in StderrTexts :
                 LET call  == subprocess_call(ffmpeg_cmd(wjob[w].video_file, waudio[w], path),
                                              returncode, err)
                     merge == ffmpeg_merge_video_audio(wjob[w].video_file, waudio[w], path,
                                                       returncode, err)
                 IN  /\ targets' = Append(targets,
                            [ id |-> wjob[w].id, audio |-> waudio[w], path |-> path,
                              returncode |-> returncode, stderr |-> err,
                              call |-> call, merge |-> merge ])
                     /\ IF merge.raised
                        THEN /\ files' = files
                             /\ wexc' = [wexc EXCEPT ![w] = "transcribe"]
                        ELSE /\ files' = files \cup { path }
                             /\ wexc' = wexc
    /\ wpc' = [wpc EXCEPT ![w] = "task_done"]
    /\ UNCHANGED << count, lastClose, wjob, waudio, putLog, getLog, doneLog >>
    /\ UNCHANGED << qvars, mainvars >>

\* A run() that lowers queue.unfinished_tasks itself, once in an except
\* clause and once more in the finally clause, bypassing task_done's check.
WorkerTaskDoneTwice(w) ==
    /\ wpc[w] = "task_done"
    /\ unfinished' = IF wexc[w] = NoExc THEN unfinished - 1 ELSE unfinished - 2
    /\ doneLog' = Append(doneLog,
          [ worker |-> w, id |-> wjob[w].id,
            result |-> IF wexc[w] = NoExc THEN "ok" ELSE wexc[w] ])
    /\ wpc' = [wpc EXCEPT ![w] = IF wexc[w] = NoExc THEN "get" ELSE "dead"]
    /\ wexc' = wexc
    /\ wjob' = [wjob EXCEPT ![w] = NoJob]
    /\ waudio' = [waudio EXCEPT ![w] = NoAudio]
    /\ UNCHANGED << count, lastClose, queue, putLog, getLog >>
    /\ UNCHANGED << mainvars, fsvars >>

\* A run() with an except clause around the job: the exception is dropped
\* after task_done and the loop goes on to the next get.
WorkerTaskDoneCatching(w) ==
    /\ wpc[w] = "task_done"
    /\ unfinished > 0
    /\ unfinished' = unfinished - 1
    /\ doneLog' = Append(doneLog,
          [ worker |-> w, id |-> wjob[w].id,
            result |-> IF wexc[w] = NoExc THEN "ok" ELSE wexc[w] ])
    /\ wpc' = [wpc EXCEPT ![w] = "get"]
    /\ wexc' = [wexc EXCEPT ![w] = NoExc]
    /\ wjob' = [wjob EXCEPT ![w] = NoJob]
    /\ waudio' = [waudio EXCEPT ![w] = NoAudio]
    /\ UNCHANGED << count, lastClose, queue, putLog, getLog >>
    /\ UNCHANGED << mainvars, fsvars >>

\* The finally clause: queue.task_done() (which raises ValueError when no
\* task is unfinished); then the pending exception, if any, leaves run()
\* and the thread ends, otherwise the loop goes back to queue.get().
WorkerTaskDone(w) ==
    /\ wpc[w] = "task_done"
    /\ IF unfinished <= 0
       THEN /\ wpc' = [wpc EXCEPT ![w] = "dead"]
            /\ wexc' = [wexc EXCEPT ![w] = "ValueError"]
            /\ UNCHANGED << unfinished, doneLog >>
       ELSE /\ unfinished' = unfinished - 1
            /\ doneLog' = Append(doneLog,
                  [ worker |-> w, id |-> wjob[w].id,
                    result |-> IF wexc[w] = NoExc THEN "ok" ELSE wexc[w] ])
            /\ wpc' = [wpc EXCEPT ![w] = IF wexc[w] = NoExc THEN "get" ELSE "dead"]
            /\ wexc' = wexc
    /\ wjob' = [wjob EXCEPT ![w] = NoJob]
    /\ waudio' = [waudio EXCEPT ![w] = NoAudio]
    /\ UNCHANGED << count, lastClose, queue, putLog, getLog >>
    /\ UNCHANGED << mainvars, fsvars >>

\* One step of worker w's run().
Worker(w) ==
    \/ WorkerGet(w)
    \/ WorkerDownload(w)
    \/ WorkerTranscribe(w)
    \/ WorkerTaskDone(w)

Next ==
    \/ LoadLinksCall
    \/ LoadLinksPut
    \/ LoadLinksReturn
    \/ CloseCall
    \/ CloseReturn
    \/ \E w \in Workers : WorkerGet(w)
    \/ \E w \in Workers : WorkerDownload(w)
    \/ \E w \in Workers : WorkerTranscribe(w)
    \/ \E w \in Workers : WorkerTaskDone(w)

Spec == Init /\ [][Next]_vars

\* Every thread that can take a step eventually takes it: the workers are
\* started threads and the submitting thread runs its calls to their end.
FairSpec ==
    /\ Spec
    /\ \A w \in 1 .. MaxWorkers : WF_vars(w \in Workers /\ Worker(w))
    /\ WF_vars(LoadLinksPut)
    /\ WF_vars(LoadLinksReturn)
    /\ WF_vars(CloseReturn)

\* ------------------------------------------------------------ claims
\* The jobs some worker holds: got and not yet marked done.
InFlight == { wjob[w].id : w \in { v \in Workers : wpc[v] \in {"download", "transcribe", "task_done"} } }

\* How often job id occurs in a log of records with an id field.
Occurrences(log, id) == Cardinality({ k \in DOMAIN log : log[k].id = id })

\* The workers whose run() has not ended.
Alive == { w \in Workers : wpc[w] # "dead" }

\* C1: whenever close() has returned, the task_done calls counted at that
\* moment are exactly the jobs submitted until then, one for each of them.
C1_CloseReturnsAfterAllDone ==
    lastClose # NoClose =>
        /\ lastClose.dones = lastClose.puts
        /\ \A id \in 1 .. lastClose.puts : Occurrences(doneLog, id) = 1

\* C1 witness: a close has returned after three jobs on two workers, both
\* of which took part.
C1_Witness ==
    /\ lastClose # NoClose
    /\ lastClose.puts = 3
    /\ count = 2
    /\ { doneLog[k].worker : k \in DOMAIN doneLog } = {1, 2}

\* C2: a close() that is waiting always eventually returns, whichever jobs
\* fail, under fair scheduling of the threads.
C2_CloseEventuallyReturns == (mainpc = "close") ~> (mainpc = "idle")

\* C3: the number of workers still running their loop equals the count
\* given at construction, in every state.
C3_PoolNeverShrinks == Cardinality(Alive) = count

\* C4: every job a worker has got and no longer holds has been marked done
\* exactly once, a job still held or never got has not been marked done,
\* and every task_done follows a get of that job by the same worker.
C4_TaskDoneOncePerGet ==
    /\ \A k \in DOMAIN getLog :
          LET id == getLog[k].job.id
          IN  Occurrences(doneLog, id) = IF id \in InFlight THEN 0 ELSE 1
    /\ \A k \in DOMAIN doneLog :
          \E g \in DOMAIN getLog :
             /\ getLog[g].job.id = doneLog[k].id
             /\ getLog[g].worker = doneLog[k].worker
    /\ Len(doneLog) <= Len(getLog)

\* C4 witness: one job was marked done after success, one after the download
\* raised and one after the transcode raised.
C4_Witness ==
    { doneLog[k].result : k \in DOMAIN doneLog } = {"ok", "download", "transcribe"}

\* C5: the queue's outstanding count is never negative.
C5_OutstandingNonNegative == unfinished >= 0

\* C5 witness: the count is back at zero after a failed job was marked done
\* while close() waits.
C5_Witness ==
    /\ unfinished = 0
    /\ mainpc = "close"
    /\ \E k \in DOMAIN doneLog : doneLog[k].result # "ok"

\* C6: a close() entered when no job was ever submitted can return at once:
\* its return is enabled in that very state, before any worker step.
C6_CloseWithNoJobsReturnsAtOnce ==
    (mainpc = "close" /\ putLog = <<>>) => ENABLED CloseReturn

\* C6 witness: close() has returned with no job ever submitted and no worker
\* having left its first get, with two workers.
C6_Witness ==
    /\ lastClose = [puts |-> 0, dones |-> 0]
    /\ putLog = <<>>
    /\ count = 2
    /\ \A w \in Workers : wpc[w] = "get"

\* C7: with a single worker the k-th get returns the k-th submitted job, and
\* the k-th task_done is for the job of the k-th get.
C7_SingleWorkerOrder ==
    count = 1 =>
        /\ Len(getLog) <= Len(putLog)
        /\ \A k \in DOMAIN getLog : getLog[k].job = putLog[k]
        /\ Len(doneLog) <= Len(getLog)
        /\ \A k \in DOMAIN doneLog : doneLog[k].id = getLog[k].job.id

\* C7 witness: the single worker has got and marked done three submitted
\* jobs, and a close() has returned after them.
C7_Witness ==
    /\ count = 1
    /\ Len(putLog) = 3
    /\ Len(doneLog) = 3
    /\ lastClose = [puts |-> 3, dones |-> 3]

\* C8: for any worker count, the gets of the whole pool taken in order
\* return the submitted jobs in submission order.
C8_PoolDequeuesFifo ==
    /\ Len(getLog) <= Len(putLog)
    /\ \A k \in DOMAIN getLog : getLog[k].job.id = k /\ getLog[k].job = putLog[k]

\* C8 witness: two workers shared three gets, and the jobs were marked done
\* in another order than they were got.
C8_Witness ==
    /\ count = 2
    /\ Len(getLog) = 3
    /\ { getLog[k].worker : k \in DOMAIN getLog } = {1, 2}
    /\ \E k \in DOMAIN doneLog : doneLog[k].id # k

\* C9: no job is returned by two gets, and no two workers hold the same job.
C9_JobConsumedAtMostOnce ==
    /\ \A i, j \in DOMAIN getLog : i # j => getLog[i].job.id # getLog[j].job.id
    /\ \A v, w \in Workers :
          (v # w /\ wjob[v] # NoJob /\ wjob[w] # NoJob) => wjob[v].id # wjob[w].id

\* C9 witness: two workers hold two different jobs at the same time.
C9_Witness ==
    /\ count = 2
    /\ wjob[1] # NoJob
    /\ wjob[2] # NoJob
    /\ wpc[1] = "download"
    /\ wpc[2] = "download"

\* C10: no two transcode invocations of a run target the same output path.
C10_OutputPathsDistinct ==
    \A i, j \in DOMAIN targets : i # j => targets[i].path # targets[j].path

\* C10 witness: two workers have both invoked the transcoder, neither having
\* marked its job done yet, for jobs sharing the seed video and the directory.
C10_Witness ==
    /\ count = 2
    /\ wpc[1] = "task_done"
    /\ wpc[2] = "task_done"
    /\ wjob[1].video_file = wjob[2].video_file
    /\ wjob[1].download_dir = wjob[2].download_dir
    /\ \E i, j \in DOMAIN targets : targets[i].id = wjob[1].id /\ targets[j].id = wjob[2].id

\* A job has raised in some worker (the exception stays recorded).
Failed == \E w \in Workers : wexc[w] # NoExc

\* The pipeline with a Downloader and a Transcoder that never raise, every
\* thread that can take a step eventually taking it.
NoFailNext ==
    \/ LoadLinksCall
    \/ LoadLinksPut
    \/ LoadLinksReturn
    \/ CloseCall
    \/ CloseReturn
    \/ \E w \in Workers : WorkerGet(w)
    \/ \E w \in Workers : WorkerDownload(w) /\ ~Failed'
    \/ \E w \in Workers : WorkerTranscribe(w) /\ ~Failed'
    \/ \E w \in Workers : WorkerTaskDone(w)

NoFailSpec ==
    /\ Init
    /\ [][NoFailNext]_vars
    /\ \A w \in 1 .. MaxWorkers : WF_vars(w \in Workers /\ Worker(w) /\ ~Failed')
    /\ WF_vars(LoadLinksPut)
    /\ WF_vars(LoadLinksReturn)
    /\ WF_vars(CloseReturn)

\* C11: when no job fails, a close() that is waiting eventually returns, and
\* at the step it returns there are exactly as many output files as jobs
\* were submitted.
C11_AllSucceedCloseReturnsWithAllFiles ==
    /\ (mainpc = "close") ~> (mainpc = "idle")
    /\ [][ (mainpc = "close" /\ mainpc' = "idle")
              => Cardinality(files') = Len(putLog') ]_vars

\* C11 witness: two jobs on two workers, one job each, all succeeded, close()
\* has returned and two output files exist.
C11_Witness ==
    /\ count = 2
    /\ ~Failed
    /\ lastClose = [puts |-> 2, dones |-> 2]
    /\ Len(putLog) = 2
    /\ { doneLog[k].worker : k \in DOMAIN doneLog } = {1, 2}
    /\ Cardinality(files) = 2

\* C12: with one worker and three jobs submitted, the download of the second
\* job (and nothing else) having raised, a waiting close() eventually returns
\* with three task_done calls made and two output files present.
C12_SecondJobFailsBatchCompletes ==
    ( /\ count = 1
      /\ Len(putLog) = 3
      /\ mainpc = "close"
      /\ \A k \in DOMAIN doneLog :
            doneLog[k].result = IF doneLog[k].id = 2 THEN "download" ELSE "ok"
      /\ \E k \in DOMAIN doneLog : doneLog[k].id = 2 )
    ~> ( /\ mainpc = "idle"
         /\ Len(doneLog) = 3
         /\ Cardinality(files) = 2 )

\* C13: when no job raises, at the step a close() returns every worker is
\* alive and waiting in get with nothing pending; jobs submitted after a
\* close has returned are all eventually marked done; and every close(), the
\* first or a later one, returns only with all submitted jobs marked done.
C13_CloseIsBarrierNotShutdown ==
    /\ [][ (mainpc = "close" /\ mainpc' = "idle")
              => /\ \A w \in Workers : wpc'[w] = "get"
                 /\ queue' = <<>>
                 /\ Len(doneLog') = Len(putLog') ]_vars
    /\ [](lastClose # NoClose /\ mainpc # "close" => Alive = Workers)
    /\ (lastClose # NoClose /\ Len(putLog) > lastClose.puts)
          ~> (Len(doneLog) = Len(putLog))

\* C13 witness: a close() returned after one job; two more jobs were then
\* submitted, got and marked done, both workers are back in get, and a
\* second close() has been entered and can return.
C13_Witness ==
    /\ count = 2
    /\ lastClose = [puts |-> 1, dones |-> 1]
    /\ Len(putLog) = 3
    /\ Len(doneLog) = 3
    /\ \A k \in DOMAIN getLog : getLog[k].job.id = k
    /\ \A w \in Workers : wpc[w] = "get"
    /\ mainpc = "close"
    /\ ENABLED CloseReturn

\* C14: for every ffmpeg process run, subprocess_call raised exactly when the
\* return code was not zero, what it raised was an IOError carrying the
\* process's stderr text, and ffmpeg_merge_video_audio ended for its caller
\* the way subprocess_call ended.
C14_RaisesIffNonZeroExit ==
    \A k \in DOMAIN targets :
        LET t == targets[k]
        IN  /\ t.call.raised <=> (t.returncode # 0)
            /\ t.call.raised => t.call = Raised("IOError", t.stderr)
            /\ ~t.call.raised => t.call = Returned
            /\ t.merge = t.call

\* C14 witness: one process ended with return code 0, one with an error
\* status and one was killed by a signal.
C14_Witness ==
    { targets[k].returncode : k \in DOMAIN targets } = { 0, 1, -9 }

\* The position in getLog of worker w's last get (0 if it made none).
LastGet(w) ==
    LET mine == { k \in DOMAIN getLog : getLog[k].worker = w }
    IN  IF mine = {} THEN 0 ELSE CHOOSE k \in mine : \A j \in mine : j <= k

\* C15: a job whose download or transcode raised is marked done exactly once
\* by its worker, which is then dead for good: that job is the last the
\* worker ever got, and a dead worker never leaves that state.
C15_FailureMarksDoneThenEndsWorker ==
    /\ [](\A k \in DOMAIN doneLog :
             doneLog[k].result # "ok" =>
                /\ wpc[doneLog[k].worker] = "dead"
                /\ Occurrences(doneLog, doneLog[k].id) = 1
                /\ getLog[LastGet(doneLog[k].worker)].job.id = doneLog[k].id)
    /\ [](\A w \in Workers :
             (wexc[w] # NoExc /\ wpc[w] # "task_done") =>
                /\ wpc[w] = "dead"
                /\ \E k \in DOMAIN doneLog :
                      doneLog[k].worker = w /\ doneLog[k].result = wexc[w])
    /\ [][\A w \in Workers : wpc[w] = "dead" => wpc'[w] = "dead"]_vars

\* C15 witness: worker 1 died on the first job after marking it done; the
\* pending jobs went to worker 2, which is still alive, and a close() returned.
C15_Witness ==
    /\ count = 2
    /\ wpc[1] = "dead"
    /\ wpc[2] = "get"
    /\ Len(doneLog) = 3
    /\ doneLog[1].worker = 1
    /\ doneLog[1].result # "ok"
    /\ \A k \in 2 .. 3 : getLog[k].worker = 2
    /\ lastClose = [puts |-> 3, dones |-> 3]

\* C16: a worker is in its transcode step only holding the audio path its
\* download returned for that same job; every transcode invocation was made
\* once for its job, with that job's audio path; a job whose download raised
\* has no transcode invocation; and every output file is the target of an
\* invocation whose process succeeded.
C16_TranscodeOnlyAfterDownload ==
    /\ \A w \in Workers :
          wpc[w] = "transcribe" =>
             /\ waudio[w] # NoAudio
             /\ waudio[w] = AudioPath(wjob[w].link, wjob[w].download_dir)
    /\ \A w \in Workers : wpc[w] = "download" => waudio[w] = NoAudio
    /\ \A k \in DOMAIN targets :
          LET t == targets[k]
          IN  /\ t.id \in DOMAIN putLog
              /\ t.audio = AudioPath(putLog[t.id].link, putLog[t.id].download_dir)
              /\ Occurrences(targets, t.id) = 1
    /\ \A k \in DOMAIN doneLog :
          doneLog[k].result = "download" => Occurrences(targets, doneLog[k].id) = 0
    /\ \A w \in Workers :
          (wexc[w] = "download") => Occurrences(targets, wjob[w].id) = 0
    /\ files = { targets[k].path : k \in { j \in DOMAIN targets : targets[j].returncode = 0 } }

\* C16 witness: one job's download raised and it was marked done with no
\* transcode and no output file, while the other worker is in the transcode
\* step of a later job after an earlier transcode.
C16_Witness ==
    /\ count = 2
    /\ \E k \in DOMAIN doneLog : doneLog[k].result = "download"
    /\ \E w \in Workers : wpc[w] = "transcribe"
    /\ Len(targets) = 1
    /\ Cardinality(files) = 1

\* C16 overlap: two workers are in the download and in the transcode step of
\* two different jobs at the same time.
C16_Overlap ==
    /\ count = 2
    /\ wpc[1] = "download"
    /\ wpc[2] = "transcribe"
    /\ wjob[1].id # wjob[2].id

\* C17: while load_links runs with pairs left, its next put is enabled
\* whatever the workers do; each of its steps appends to the queue's tail one
\* job holding the next pair's title and link and the call's video_file and
\* download_dir, raises the outstanding count by one and changes nothing of
\* the workers or the files; the pending jobs are the submitted ones not yet
\* got, in submission order; and a got tuple equals the tuple that was put.
C17_LoadLinksEnqueuesInOrder ==
    /\ [](mainpc = "load_links" /\ links # <<>> => ENABLED LoadLinksPut)
    /\ [][ putLog' # putLog =>
              /\ mainpc = "load_links"
              /\ Len(queue') = Len(queue) + 1
              /\ SubSeq(queue', 1, Len(queue)) = queue
              /\ LET job == queue'[Len(queue')]
                 IN  /\ job.title = Head(links)[1]
                     /\ job.link = Head(links)[2]
                     /\ job.video_file = video_file
                     /\ job.download_dir = download_dir
                     /\ putLog' = Append(putLog, job)
              /\ links' = Tail(links)
              /\ unfinished' = unfinished + 1
              /\ UNCHANGED << wvars, fsvars, count, getLog, doneLog, lastClose >> ]_vars
    /\ [][ (mainpc = "load_links" /\ putLog' = putLog /\ mainvars' # mainvars)
              => (links = <<>> /\ UNCHANGED << qvars, wvars, fsvars >>) ]_vars
    /\ [](queue = SubSeq(putLog, Len(getLog) + 1, Len(putLog)))
    /\ [](\A k \in DOMAIN getLog : getLog[k].job = putLog[getLog[k].job.id])
    /\ [](\A w \in Workers : wjob[w] # NoJob => wjob[w] = putLog[wjob[w].id])

\* C17 witness: load_links has put its last pair, three jobs are submitted,
\* the first two naming different songs, and a worker already holds the
\* first of them while the other two are pending.
C17_Witness ==
    /\ mainpc = "load_links"
    /\ links = <<>>
    /\ Len(putLog) = 3
    /\ lastClose = NoClose
    /\ putLog[1].title # putLog[2].title
    /\ putLog[1].link # putLog[2].link
    /\ Len(queue) = 2
    /\ \E w \in Workers : wjob[w] = putLog[1]

\* C18: the workers are exactly the count given at construction (2 when
\* none is given), all started and waiting in get before the first put; and
\* the jobs got and not yet marked done never outnumber the live workers,
\* which never outnumber count.
C18_PoolBoundedByCount ==
    /\ DOMAIN wpc = 1 .. count
    /\ putLog = <<>> => \A w \in Workers : wpc[w] = "get"
    /\ Len(getLog) - Len(doneLog) <= Cardinality(Alive)
    /\ Cardinality(InFlight) = Len(getLog) - Len(doneLog)
    /\ Cardinality(Alive) <= count

\* C18 witness: a pool of the default size with every worker holding a job
\* and a third job pending.
C18_Witness ==
    /\ count = DefaultCount
    /\ Cardinality(InFlight) = count
    /\ Len(queue) = 1
    /\ Alive = Workers

\* The workers between their get and their task_done.
Busy == { w \in Workers : wpc[w] \in {"download", "transcribe", "task_done"} }

\* C19: the outstanding count equals the number of pending jobs plus the
\* number of jobs some worker has got and not yet marked done.
C19_OutstandingIsPendingPlusInFlight ==
    /\ unfinished = Len(queue) + Cardinality(Busy)
    /\ unfinished = Len(putLog) - Len(doneLog)

\* C19 witness: one job was marked done after it failed, one is in flight in
\* the other worker and one is still pending.
C19_Witness ==
    /\ count = 2
    /\ Len(queue) = 1
    /\ Cardinality(Busy) = 1
    /\ unfinished = 2
    /\ \E k \in DOMAIN doneLog : doneLog[k].result # "ok"

\* generate_videos' use of the pipeline: one load_links call on the new
\* DownloadQueue, then the close() of __exit__, with jobs free to fail and
\* every thread that can take a step eventually taking it.
BatchNext ==
    \/ LoadLinksCall /\ video_file = "none"
    \/ LoadLinksPut
    \/ LoadLinksReturn
    \/ CloseCall /\ video_file # "none" /\ lastClose = NoClose
    \/ CloseReturn
    \/ \E w \in Workers : WorkerGet(w)
    \/ \E w \in Workers : WorkerDownload(w)
    \/ \E w \in Workers : WorkerTranscribe(w)
    \/ \E w \in Workers : WorkerTaskDone(w)

BatchFairSpec ==
    /\ Init
    /\ [][BatchNext]_vars
    /\ \A w \in 1 .. MaxWorkers : WF_vars(w \in Workers /\ Worker(w))
    /\ WF_vars(LoadLinksPut)
    /\ WF_vars(LoadLinksReturn)
    /\ WF_vars(CloseReturn)

\* The number of jobs that have raised: each ends one worker.
FailCount == Cardinality({ w \in Workers : wexc[w] # NoExc })

\* C20: while fewer jobs have failed than there are workers a worker is
\* alive; and, under fair scheduling, unless as many jobs fail as there are
\* workers, every submitted job is eventually got and marked done and a
\* waiting close() eventually returns.
C20_FewerFailuresThanWorkersCompletes ==
    /\ [](FailCount < count => Alive # {})
    /\ [](Cardinality(Alive) >= count - FailCount)
    /\ (Len(doneLog) < Len(putLog))
          ~> (FailCount >= count
              \/ \A id \in 1 .. Len(putLog) :
                    /\ Occurrences(doneLog, id) = 1
                    /\ \E k \in DOMAIN getLog : getLog[k].job.id = id)
    /\ (mainpc = "close") ~> (FailCount >= count \/ mainpc = "idle")

\* C20 witness: with two workers one job failed and ended its worker; the
\* other worker took the remaining jobs and a close() returned after all
\* three were marked done.
C20_Witness ==
    /\ count = 2
    /\ FailCount = 1
    /\ Cardinality(Alive) = 1
    /\ lastClose = [puts |-> 3, dones |-> 3]
    /\ \E k \in DOMAIN doneLog : doneLog[k].result # "ok" /\ doneLog[k].id < 3

====
